---- MODULE Spec2Model ----
(***************************************************************************)
(* Slide segmentation, hyphen normalisation, image allocation and clip     *)
(* assembly of the product video generator, as implemented twice:          *)
(*   "vgs"      = src/video_generation_service.py                          *)
(*   "pipeline" = src/pipeline.py                                          *)
(* A Python str is a sequence of one-character strings.                    *)
(***************************************************************************)
EXTENDS Integers, Sequences, FiniteSets, TLC

VARIABLES
    impl,                 \* which module's code runs
    text,                 \* transcript handed to split_text_into_slides
    font,                 \* glyph metrics behind font.getbbox
    max_width, max_lines, \* arguments of split_text_into_slides
    caller_images,        \* the list object the caller passes as images
    pc,                   \* position in create_video_for_product
    words, current_line, current_slide_lines, lines, slides,
    images,               \* the local name `images` inside the call
    idx,                  \* 0-based index of the next slide of the loop
    video_clips, audio_clips,
    audio_assets,         \* duration of the audio file written for a slide
    final_video,          \* the clips handed to write_videofile, if any
    spoken,               \* texts handed to gTTS, by slide
    drawn,                \* lines drawn on the frame, by slide
    used,                 \* image picked for a slide, by slide
    calls,                \* external calls made so far in this run
    outcome,              \* how the call ended
    answered,             \* whether the chat completion request succeeds
    run,                  \* number of the current call on the same inputs
    first_used,           \* `used` at the end of the first call
    img_size, resized,    \* size of a fetched image, and after img.resize
    products,             \* the batch: per product its transcript and images
    prod_idx,             \* number of products the batch loop has left behind
    batch_pc,             \* position in create_videos_and_blogs_from_csv
    processed,            \* products the batch loop has taken up
    reports,              \* what the batch printed, in order
    video_files,          \* products whose .mp4 was written
    blog_files,           \* products whose blog and title files were written
    audio_folder,         \* per concurrent run: the folder of its audio files
    product_id,           \* per concurrent run: the product it generates
    n_slides,             \* per concurrent run: the number of its slides
    audio_pc,             \* per concurrent run: "synth", "read" or "done"
    slide_no,             \* per concurrent run: the slide it is working on
    files,                \* audio path -> the run that wrote the file (0: none)
    read_from,            \* per concurrent run: whose file each slide read
    image_urls,           \* download_images: the urls asked for
    fetched,              \* download_images: which of the urls so far succeeded
    local_paths,          \* download_images: the list it builds
    dl_pc,                \* download_images: "loop", "returned" or "raised"
    other_slides,         \* the slides the other segmenter returned
    seg_pass,             \* 1: first segmenter at work, 2: the second one
    drive_files,          \* the non-trashed files of the parent folder, by id
    up_pc,                \* per session: position in upload_file
    up_name, up_data,     \* per session: arguments of its upload_file call
    existing,             \* per session: the ids its files().list returned
    uploads,              \* per session: upload_file calls it has made
    output_folder,        \* upload_videos_streamlit: the entries it lists
    sub_idx,              \* entries the loop has left behind
    results,              \* the list it builds
    upload_calls,         \* entries for which upload_fn was called
    upl_pc,               \* "loop", "returned" or "raised"
    dirs,                 \* the temporary directories that exist
    next_td,              \* the directory the next mkdtemp makes
    app_pc,               \* app.py: "preload_fonts", "preload_logo", "ready"
    fonts_folder,         \* what preload_fonts returned
    logo_path,            \* what preload_logo returned
    show_output_radio_single,
    last_single_result,   \* st.session_state.last_single_result
    generate_calls,       \* calls of generate_for_single so far
    event,                \* the button of the last rerun
    rendered              \* what the last rerun showed

inputs   == <<impl, text, font, max_width, max_lines, answered>>
segvars  == <<words, current_line, current_slide_lines, lines, slides>>
loopvars == <<idx, video_clips, audio_clips, audio_assets, final_video,
              spoken, drawn, used, calls>>
corevars == <<inputs, segvars, loopvars, caller_images, images, pc, outcome,
              run, first_used>>
resizevars == <<img_size, resized>>
batchvars  == <<products, prod_idx, batch_pc, processed, reports,
                video_files, blog_files>>
concvars   == <<audio_folder, product_id, n_slides, audio_pc, slide_no,
                files, read_from>>
dlvars     == <<image_urls, fetched, local_paths, dl_pc>>
pairvars   == <<other_slides, seg_pass>>
drivevars  == <<drive_files, up_pc, up_name, up_data, existing, uploads>>
uplvars    == <<output_folder, sub_idx, results, upload_calls, upl_pc>>
appvars    == <<dirs, next_td, app_pc, fonts_folder, logo_path,
                show_output_radio_single, last_single_result, generate_calls,
                event, rendered>>
latevars   == <<pairvars, drivevars, uplvars, appvars>>
sidevars   == <<concvars, dlvars, latevars>>
othervars  == <<resizevars, batchvars, sidevars>>
vars       == <<corevars, othervars>>

(***************************************************************************)
(* Bounds of the model.                                                    *)
(***************************************************************************)
MaxWords    == 3     \* words in a narration of the segmenter specification
MaxWidthPx  == 14    \* largest max_width tried
MaxLinesPer == 2     \* largest max_lines tried
MaxImages   == 2     \* largest image list
MaxDuration == 2     \* largest audio duration
MaxRuns     == 2     \* calls of create_video_for_product on the same input

Impls == {"vgs", "pipeline"}

(***************************************************************************)
(* Characters and strings.                                                 *)
(***************************************************************************)
Digits     == {"0", "1", "2", "3", "4", "5", "6", "7", "8", "9"}
Whitespace == {" ", "\n"}
Hyphen     == "-"

\* [A-Za-z0-9]: every character of the model that is neither whitespace nor
\* the hyphen is a letter or a digit.
IsAlnum(c) == c \notin Whitespace /\ c # Hyphen

IsDigit(c) == c \in Digits

RECURSIVE Concat(_)
Concat(ss) == IF ss = <<>> THEN <<>> ELSE Head(ss) \o Concat(Tail(ss))

\* sep.join(parts)
RECURSIVE Join(_, _)
Join(parts, sep) ==
    IF parts = <<>> THEN <<>>
    ELSE IF Len(parts) = 1 THEN parts[1]
    ELSE parts[1] \o sep \o Join(Tail(parts), sep)

\* s.split(sep) for a one-character sep: empty fields are kept
RECURSIVE SplitOnAcc(_, _, _)
SplitOnAcc(s, sep, cur) ==
    IF s = <<>> THEN <<cur>>
    ELSE IF Head(s) = sep THEN <<cur>> \o SplitOnAcc(Tail(s), sep, <<>>)
    ELSE SplitOnAcc(Tail(s), sep, Append(cur, Head(s)))

SplitOn(s, sep) == SplitOnAcc(s, sep, <<>>)

\* s.split(): runs of whitespace separate, no empty fields
RECURSIVE SplitAcc(_, _)
SplitAcc(s, cur) ==
    IF s = <<>> THEN (IF cur = <<>> THEN <<>> ELSE <<cur>>)
    ELSE IF Head(s) \in Whitespace
         THEN (IF cur = <<>> THEN <<>> ELSE <<cur>>) \o SplitAcc(Tail(s), <<>>)
         ELSE SplitAcc(Tail(s), Append(cur, Head(s)))

Split(s) == SplitAcc(s, <<>>)

RECURSIVE LStrip(_)
LStrip(s) == IF s # <<>> /\ Head(s) \in Whitespace THEN LStrip(Tail(s)) ELSE s

RECURSIVE RStrip(_)
RStrip(s) ==
    IF s # <<>> /\ s[Len(s)] \in Whitespace
    THEN RStrip(SubSeq(s, 1, Len(s) - 1)) ELSE s

\* s.strip()
Strip(s) == RStrip(LStrip(s))

\* font.getbbox(s)[2]: the pen advance over the glyphs of s
RECURSIVE Width(_, _)
Width(f, s) ==
    IF s = <<>> THEN 0
    ELSE (IF Head(s) = " " THEN f.space ELSE f.glyph) + Width(f, Tail(s))

(***************************************************************************)
(* create_audio_with_gtts: the hyphen rewrite of the voice-over text.      *)
(***************************************************************************)
\* length of the longest run of [A-Za-z0-9] that starts at position i
RECURSIVE AlnumRun(_, _)
AlnumRun(s, i) ==
    IF i <= Len(s) /\ IsAlnum(s[i]) THEN 1 + AlnumRun(s, i + 1) ELSE 0

\* last position of the match of [A-Za-z0-9]+-[A-Za-z0-9]+ that starts at
\* position i, or 0 when the pattern does not match there
MatchEnd(s, i) ==
    LET n == AlnumRun(s, i)
        h == i + n
        m == AlnumRun(s, h + 1)
    IN  IF n >= 1 /\ h <= Len(s) /\ s[h] = Hyphen /\ m >= 1 THEN h + m ELSE 0

\* re.search(r"\d+-\d+", s)
HasDigitHyphenDigit(s) ==
    \E j \in 2..(Len(s) - 1) :
        s[j] = Hyphen /\ IsDigit(s[j - 1]) /\ IsDigit(s[j + 1])

\* s.replace(c, r) for a one-character c
RECURSIVE Replace(_, _, _)
Replace(s, c, r) ==
    IF s = <<>> THEN <<>>
    ELSE (IF Head(s) = c THEN r ELSE <<Head(s)>>) \o Replace(Tail(s), c, r)

Dash == <<" ", "d", "a", "s", "h", " ">>

replace_hyphen(matched_text) ==
    IF HasDigitHyphenDigit(matched_text)
    THEN Replace(matched_text, Hyphen, Dash)
    ELSE Replace(matched_text, Hyphen, <<" ">>)

\* re.sub(r"[A-Za-z0-9]+-[A-Za-z0-9]+", replace_hyphen, s), scanning from i
RECURSIVE SubFrom(_, _)
SubFrom(s, i) ==
    IF i > Len(s) THEN <<>>
    ELSE LET e == MatchEnd(s, i)
         IN  IF e > 0
             THEN replace_hyphen(SubSeq(s, i, e)) \o SubFrom(s, e + 1)
             ELSE <<s[i]>> \o SubFrom(s, i + 1)

voiceover_text(s) == SubFrom(s, 1)

(***************************************************************************)
(* Inputs.                                                                 *)
(***************************************************************************)
wI     == <<"I">>
wBuy   == <<"B", "u", "y">>
wNow   == <<"n", "o", "w">>
wToday == <<"t", "o", "d", "a", "y">>
wSKU   == <<"S", "K", "U", "-", "1", "2", "3">>
wEco   == <<"e", "c", "o", "-", "f", "r", "i", "e", "n", "d", "l", "y">>
wRange == <<"1", "2", "-", "3", "4">>
wABC   == <<"a", "-", "b", "-", "c">>

SegWords == {wI, wNow, wToday}

WordLists == UNION {[1..n -> SegWords] : n \in 0..MaxWords}

\* a narration whose words are ws: single spaces, or untidy whitespace
MakeText(ws, style) ==
    IF style = "plain" THEN Join(ws, <<" ">>)
    ELSE <<" ">> \o Join(ws, <<" ", "\n">>) \o <<"\n">>

Fonts == [glyph : 1..2, space : 0..1]

RunFont == [glyph |-> 1, space |-> 1]

RunTexts ==
    { <<>>,
      <<" ", "\n">>,
      Join(<<wBuy, wNow, wToday>>, <<" ">>),
      Join(<<wSKU, wEco>>, <<" ">>),
      Join(<<wRange, wABC, wI>>, <<" ">>),
      Join(<<wI, wNow, wI, wBuy, wI>>, <<" ">>) }

RunWidths == {2, MaxWidthPx}

\* the caller's image descriptors: K of them, at most one without imageURL
ImageLists ==
    { [k \in 1..K |-> [id |-> k, imageURL |-> (k # n)]] :
        K \in 1..MaxImages, n \in 0..1 }

NoMap == [i \in {} |-> 0]

NoVideo == [clips |-> <<>>, audio |-> <<>>]

Locals ==
    /\ words = <<>> /\ current_line = <<>> /\ current_slide_lines = <<>>
    /\ lines = <<>> /\ slides = <<>>
    /\ idx = 0 /\ video_clips = <<>> /\ audio_clips = <<>>
    /\ audio_assets = NoMap /\ final_video = NoVideo
    /\ spoken = NoMap /\ drawn = NoMap /\ used = NoMap
    /\ calls = {} /\ outcome = "none"

NoSize == [width |-> 0, height |-> 0]

ResizeIdle == img_size = NoSize /\ resized = NoSize

BatchIdle ==
    /\ products = <<>> /\ prod_idx = 0 /\ batch_pc = "idle"
    /\ processed = {} /\ reports = <<>>
    /\ video_files = {} /\ blog_files = {}

ConcIdle ==
    /\ audio_folder = <<>> /\ product_id = <<>> /\ n_slides = <<>>
    /\ audio_pc = <<>> /\ slide_no = <<>>
    /\ files = <<>> /\ read_from = <<>>

DownloadIdle ==
    /\ image_urls = <<>> /\ fetched = <<>> /\ local_paths = <<>>
    /\ dl_pc = "idle"

PairIdle == other_slides = <<>> /\ seg_pass = 0

DriveIdle ==
    /\ drive_files = <<>> /\ up_pc = <<>> /\ up_name = <<>>
    /\ up_data = <<>> /\ existing = <<>> /\ uploads = <<>>

UploadIdle ==
    /\ output_folder = <<>> /\ sub_idx = 0 /\ results = <<>>
    /\ upload_calls = {} /\ upl_pc = "idle"

AppIdle ==
    /\ dirs = {} /\ next_td = 0 /\ app_pc = "idle"
    /\ fonts_folder = <<>> /\ logo_path = <<>>
    /\ show_output_radio_single = FALSE /\ last_single_result = <<>>
    /\ generate_calls = 0 /\ event = "none" /\ rendered = "nothing"

LateIdle == PairIdle /\ DriveIdle /\ UploadIdle /\ AppIdle

SideIdle == ConcIdle /\ DownloadIdle /\ LateIdle

OthersIdle == ResizeIdle /\ BatchIdle /\ SideIdle

\* the segmenter called on its own, over all small inputs
SegInit ==
    /\ OthersIdle
    /\ impl \in Impls
    /\ \E ws \in WordLists, style \in {"plain", "untidy"} :
           text = MakeText(ws, style)
    /\ font \in Fonts
    /\ max_width \in 1..MaxWidthPx
    /\ max_lines \in 1..MaxLinesPer
    /\ caller_images = <<[id |-> 1, imageURL |-> TRUE]>>
    /\ images = caller_images
    /\ pc = "seg" /\ answered = TRUE
    /\ run = 1 /\ first_used = NoMap
    /\ Locals

\* f"Error: {str(e)}"
ErrorMessage == <<"E", "r", "r", "o", "r", ":", " ", "x">>

\* what get_chatgpt_response can return: one of the answers when the request
\* succeeds; when it fails, vgs returns the message of the exception as if it
\* were the answer, and pipeline returns nothing (the call raises)
get_chatgpt_response(answers, request_ok) ==
    IF impl = "vgs" /\ ~request_ok THEN {ErrorMessage} ELSE answers

\* create_video_for_product called by the batch or the single-product page
Init ==
    /\ OthersIdle
    /\ impl \in Impls
    /\ answered \in BOOLEAN
    /\ text \in get_chatgpt_response(RunTexts, answered)
    /\ font = RunFont
    /\ max_width \in RunWidths
    /\ max_lines \in 1..MaxLinesPer
    /\ caller_images \in ImageLists
    /\ images = caller_images
    /\ pc = "start"
    /\ run = 1 /\ first_used = NoMap
    /\ Locals

(***************************************************************************)
(* split_text_into_slides / split_text, one loop iteration per step.       *)
(***************************************************************************)
\* words = text.split() and the empty accumulators
split_text_into_slides_call ==
    /\ pc = "seg"
    /\ words' = Split(text)
    /\ current_line' = <<>> /\ current_slide_lines' = <<>>
    /\ lines' = <<>> /\ slides' = <<>>
    /\ pc' = "wrap"
    /\ UNCHANGED <<othervars, inputs, loopvars, caller_images, images, outcome, run,
                   first_used>>

\* font.getbbox(potential_line)[2] <= max_width
Fits_off_by_one(potential_line) == Width(font, potential_line) <= max_width + 1

Fits_strict(potential_line) == Width(font, potential_line) < max_width

Fits(potential_line) == Width(font, potential_line) <= max_width

\* current_line = word + ' '
NewLine_keeps_line(word) == current_line \o word \o <<" ">>

NewLine_drops_word(word) == <<>>

NewLine(word) == word \o <<" ">>

\* len(current_slide_lines) >= max_lines
SlideFull_never(closed) == FALSE

SlideFull_late(closed) == Len(closed) > max_lines

SlideFull(closed) == Len(closed) >= max_lines

\* what is left of the list after `words.pop(0)`
pop_two(ws) == IF Len(ws) >= 2 THEN Tail(Tail(ws)) ELSE Tail(ws)

pop(ws) == Tail(ws)

\* one iteration of `while words:`
while_words ==
    /\ pc = "wrap" /\ words # <<>>
    /\ LET word == Head(words)
           potential_line == current_line \o word \o <<" ">>
       IN  /\ words' = pop(words)
           /\ IF Fits(potential_line)
              THEN /\ current_line' = potential_line
                   /\ UNCHANGED <<current_slide_lines, lines, slides>>
              ELSE /\ current_line' = NewLine(word)
                   /\ IF impl = "vgs"
                      THEN LET closed == Append(current_slide_lines,
                                                Strip(current_line))
                           IN  IF SlideFull(closed)
                               THEN /\ slides' = Append(slides,
                                                   Join(closed, <<"\n">>))
                                    /\ current_slide_lines' = <<>>
                                    /\ UNCHANGED lines
                               ELSE /\ current_slide_lines' = closed
                                    /\ UNCHANGED <<lines, slides>>
                      ELSE /\ lines' = Append(lines, Strip(current_line))
                           /\ UNCHANGED <<current_slide_lines, slides>>
    /\ UNCHANGED <<othervars, inputs, loopvars, caller_images, images, pc, outcome,
                   run, first_used>>

\* lines[i:i+max_lines] for i in range(0, len(lines), max_lines)
RECURSIVE Chunks(_, _)
Chunks(ls, n) ==
    IF ls = <<>> THEN <<>>
    ELSE IF Len(ls) <= n THEN <<ls>>
    ELSE <<SubSeq(ls, 1, n)>> \o Chunks(SubSeq(ls, n + 1, Len(ls)), n)

\* the code after the while loop, up to the return of the slides
after_while ==
    /\ pc = "wrap" /\ words = <<>>
    /\ IF impl = "vgs"
       THEN LET last_lines == IF current_line # <<>>
                              THEN Append(current_slide_lines,
                                          Strip(current_line))
                              ELSE current_slide_lines
            IN  /\ current_slide_lines' = last_lines
                /\ slides' = IF last_lines # <<>>
                             THEN Append(slides, Join(last_lines, <<"\n">>))
                             ELSE slides
                /\ UNCHANGED lines
       ELSE LET all_lines == IF current_line # <<>>
                             THEN Append(lines, Strip(current_line))
                             ELSE lines
                chunks == Chunks(all_lines, max_lines)
            IN  /\ lines' = all_lines
                /\ slides' = [k \in 1..Len(chunks) |->
                                 Join(chunks[k], <<"\n">>)]
                /\ UNCHANGED current_slide_lines
    /\ pc' = "alloc"
    /\ UNCHANGED <<othervars, inputs, loopvars, words, current_line, caller_images,
                   images, outcome, run, first_used>>

SegNext == split_text_into_slides_call \/ while_words \/ after_while

SegSpec == SegInit /\ [][SegNext]_vars

(***************************************************************************)
(* create_video_for_product.                                               *)
(***************************************************************************)
\* entry: the vgs code loads the body font itself and returns when it cannot;
\* the pipeline code is handed the loaded fonts
create_video_for_product_call ==
    /\ pc = "start"
    /\ \E font_loaded \in BOOLEAN :
           IF impl = "pipeline" /\ ~answered
           THEN \* get_video_transcript raises
                font_loaded /\ pc' = "done" /\ outcome' = "raised"
           ELSE IF impl = "vgs" /\ ~font_loaded
           THEN pc' = "done" /\ outcome' = "font_not_loaded"
           ELSE pc' = "seg" /\ UNCHANGED outcome
    /\ UNCHANGED <<othervars, inputs, segvars, loopvars, caller_images, images, run,
                   first_used>>

\* l * n
RECURSIVE Repeat_each(_, _)
Repeat_each(l, n) ==
    IF l = <<>> THEN <<>>
    ELSE [k \in 1..n |-> Head(l)] \o Repeat_each(Tail(l), n)

RECURSIVE Repeat(_, _)
Repeat(l, n) == IF n <= 0 THEN <<>> ELSE l \o Repeat(l, n - 1)

\* "Ensure there are images for each slide": vgs rebinds the local name,
\* pipeline extends the caller's list in place (images *= n)
extend_images ==
    /\ pc = "alloc"
    /\ LET n == (Len(slides) \div Len(images)) + 1
       IN  IF impl = "vgs"
           THEN /\ images' = IF Len(images) >= Len(slides) THEN images
                             ELSE Repeat(images, n)
                /\ UNCHANGED caller_images
           ELSE IF Len(images) < Len(slides)
                THEN /\ images' = Repeat(images, n)
                     /\ caller_images' = Repeat(images, n)
                ELSE UNCHANGED <<images, caller_images>>
    /\ pc' = "loop"
    /\ UNCHANGED <<othervars, inputs, segvars, loopvars, outcome, run, first_used>>

\* images[i % len(images)] in vgs, images[idx-1] with idx from 1 in pipeline
img_data(i) ==
    IF impl = "vgs" THEN images[(i % Len(images)) + 1] ELSE images[i + 1]

\* the duration given to the still-image clip of a slide
set_duration_extra_frame(duration) == duration + 1

set_duration(duration) == duration

\* the text whose lines are drawn on the canvas
frame_text_spoken(slide_text) == voiceover_text(slide_text)

frame_text(slide_text) == slide_text

\* video_clips.append(clip), audio_clips.append(clip)
AddClip_in_front(clips, clip) == <<clip>> \o clips

AddClip(clips, clip) == Append(clips, clip)

Put(map, i, v) == [k \in DOMAIN map \cup {i} |-> IF k = i THEN v ELSE map[k]]

Skip == /\ idx' = idx + 1
        /\ UNCHANGED <<video_clips, audio_clips, audio_assets, final_video,
                       spoken, drawn, pc, outcome>>

Raise == /\ pc' = "done" /\ outcome' = "raised"
         /\ UNCHANGED <<idx, video_clips, audio_clips, audio_assets,
                        final_video, spoken, drawn>>

\* one iteration of the loop over the slides
for_slide ==
    /\ pc = "loop" /\ idx < Len(slides)
    /\ LET slide_text == slides[idx + 1]
           img        == img_data(idx)
       IN
       /\ used' = Put(used, idx, img.id)
       /\ \E fetch \in {"ok", "not_200", "error"},
             tts \in {"saved", "error"},
             duration \in 1..MaxDuration :
           IF ~img.imageURL
           THEN \* vgs: "Image URL missing", continue; pipeline:
                \* requests.get(None) raises
                /\ fetch = "ok" /\ tts = "saved" /\ duration = 1
                /\ UNCHANGED calls
                /\ IF impl = "vgs" THEN Skip ELSE Raise
           ELSE IF fetch # "ok"
           THEN \* the request or Image.open raises; vgs skips the slide when
                \* the status is not 200, pipeline opens the body regardless
                /\ tts = "saved" /\ duration = 1
                /\ calls' = calls \cup {"fetch"}
                /\ IF impl = "vgs" /\ fetch = "not_200" THEN Skip ELSE Raise
           ELSE IF tts = "error" \/ voiceover_text(slide_text) = <<>>
           THEN \* gTTS fails (it refuses an empty text): vgs returns None
                \* and the slide is left out, pipeline lets the error out
                /\ tts = "error" /\ duration = 1
                /\ calls' = calls \cup {"fetch", "tts"}
                /\ spoken' = Put(spoken, idx, voiceover_text(slide_text))
                /\ IF impl = "vgs"
                   THEN /\ idx' = idx + 1
                        /\ UNCHANGED <<video_clips, audio_clips, audio_assets,
                                       final_video, drawn, pc, outcome>>
                   ELSE /\ pc' = "done" /\ outcome' = "raised"
                        /\ UNCHANGED <<idx, video_clips, audio_clips,
                                       audio_assets, final_video, drawn>>
           ELSE /\ calls' = calls \cup {"fetch", "tts", "render"}
                /\ spoken' = Put(spoken, idx, voiceover_text(slide_text))
                /\ audio_assets' = Put(audio_assets, idx, duration)
                /\ drawn' = Put(drawn, idx,
                                SplitOn(frame_text(slide_text), "\n"))
                /\ video_clips' = AddClip(video_clips,
                       [slide |-> idx, duration |-> set_duration(duration)])
                /\ audio_clips' = AddClip(audio_clips,
                       [slide |-> idx, duration |-> duration])
                /\ idx' = idx + 1
                /\ UNCHANGED <<final_video, pc, outcome>>
    /\ UNCHANGED <<othervars, inputs, segvars, caller_images, images, run, first_used>>

\* "Combine clips into a single video"
combine_clips ==
    /\ pc = "loop" /\ idx = Len(slides)
    /\ IF video_clips # <<>>
       THEN /\ calls' = calls \cup {"encode"}
            /\ \E written \in BOOLEAN :
                   IF written
                   THEN /\ final_video' = [clips |-> video_clips,
                                           audio |-> audio_clips]
                        /\ outcome' = "written"
                   ELSE /\ outcome' = "raised"
                        /\ UNCHANGED final_video
       ELSE /\ outcome' = "no_video"
            /\ UNCHANGED <<calls, final_video>>
    /\ pc' = "done"
    /\ UNCHANGED <<othervars, inputs, segvars, idx, video_clips, audio_clips,
                   audio_assets, spoken, drawn, used, caller_images, images,
                   run, first_used>>

\* the caller calls again with the same arguments and the same list object
call_again ==
    /\ pc = "done" /\ run < MaxRuns
    /\ run' = run + 1
    /\ first_used' = IF run = 1 THEN used ELSE first_used
    /\ images' = caller_images
    /\ pc' = "start"
    /\ words' = <<>> /\ current_line' = <<>> /\ current_slide_lines' = <<>>
    /\ lines' = <<>> /\ slides' = <<>>
    /\ idx' = 0 /\ video_clips' = <<>> /\ audio_clips' = <<>>
    /\ audio_assets' = NoMap /\ final_video' = NoVideo
    /\ spoken' = NoMap /\ drawn' = NoMap /\ used' = NoMap
    /\ calls' = {} /\ outcome' = "none"
    /\ UNCHANGED <<othervars, inputs, caller_images>>

Next ==
    \/ create_video_for_product_call
    \/ split_text_into_slides_call
    \/ while_words
    \/ after_while
    \/ extend_images
    \/ for_slide
    \/ combine_clips
    \/ call_again

Spec == Init /\ [][Next]_vars

(***************************************************************************)
(* The image resize inside the loop of create_video_for_product, in exact  *)
(* arithmetic: int(a / b) is a \div b.                                     *)
(***************************************************************************)
max_img_width  == 640
max_img_height == 360

Min(a, b) == IF a <= b THEN a ELSE b

\* vgs: compare the two ratios, clamp one side without enlarging, derive the
\* other from the aspect ratio
resize_vgs(w, h) ==
    IF w * max_img_height > h * max_img_width
    THEN LET new_width == Min(w, max_img_width)
         IN  [width |-> new_width, height |-> (new_width * h) \div w]
    ELSE LET new_height == Min(h, max_img_height)
         IN  [width |-> (new_height * w) \div h, height |-> new_height]

\* pipeline: ratio = min(640/img.width, 360/img.height), both sides scaled
resize_pipeline(w, h) ==
    IF max_img_width * h <= max_img_height * w
    THEN [width  |-> (w * max_img_width) \div w,
          height |-> (h * max_img_width) \div w]
    ELSE [width  |-> (w * max_img_height) \div h,
          height |-> (h * max_img_height) \div h]

ImageSides == {1, 3, 180, 320, 360, 640, 1000, 1281}

CoreIdle ==
    /\ text = <<>> /\ font = RunFont /\ max_width = 1 /\ max_lines = 1
    /\ caller_images = <<>> /\ images = <<>>
    /\ pc = "idle" /\ run = 1 /\ first_used = NoMap /\ answered = TRUE
    /\ Locals

ResizeInit ==
    /\ BatchIdle /\ SideIdle
    /\ impl \in Impls
    /\ CoreIdle
    /\ \E w \in ImageSides, h \in ImageSides :
           img_size = [width |-> w, height |-> h]
    /\ resized = NoSize

\* img = img.resize((new_width, new_height), Image.LANCZOS)
resize_image ==
    /\ resized = NoSize
    /\ resized' = IF impl = "vgs" THEN resize_vgs(img_size.width, img_size.height)
                  ELSE resize_pipeline(img_size.width, img_size.height)
    /\ UNCHANGED <<corevars, batchvars, sidevars, img_size>>

ResizeSpec == ResizeInit /\ [][resize_image]_vars

\* (floor(w*s), floor(h*s)) with s = min(640/w, 360/h)
ClaimedSize(w, h) ==
    IF max_img_width * h <= max_img_height * w
    THEN [width |-> max_img_width, height |-> (h * max_img_width) \div w]
    ELSE [width |-> (w * max_img_height) \div h, height |-> max_img_height]

\* C16 as stated: the resized size is within 1..640 by 1..360 and equals
\* (floor(w*s), floor(h*s)) with s = min(640/w, 360/h), in both
\* implementations, also for images smaller than the box.
C16_Resize ==
    resized # NoSize =>
        /\ resized.width \in 1..max_img_width
        /\ resized.height \in 1..max_img_height
        /\ resized = ClaimedSize(img_size.width, img_size.height)

(***************************************************************************)
(* create_videos_and_blogs_from_csv: the loop over the products.           *)
(***************************************************************************)
MaxProducts == 2

TheImage == [id |-> 1, imageURL |-> TRUE]

\* the kinds of product of a batch: without images, with an empty
\* transcript, with a transcript of one slide, and of two slides
BatchProducts ==
    { [text |-> Join(<<wBuy, wNow, wToday>>, <<" ">>), images |-> <<>>],
      [text |-> <<>>, images |-> <<TheImage>>],
      [text |-> Join(<<wBuy, wNow, wToday>>, <<" ">>),
       images |-> <<TheImage>>],
      [text |-> Join(<<wSKU, wEco>>, <<" ">>), images |-> <<TheImage>>] }

BatchInit ==
    /\ ResizeIdle /\ SideIdle
    /\ impl \in Impls
    /\ text = <<>> /\ font = RunFont
    /\ max_width = MaxWidthPx /\ max_lines = 1
    /\ caller_images = <<>> /\ images = <<>>
    /\ pc = "idle" /\ run = 1 /\ first_used = NoMap /\ answered = TRUE
    /\ Locals
    /\ \E n \in 1..MaxProducts : products \in [1..n -> BatchProducts]
    /\ prod_idx = 0 /\ batch_pc = "loop"
    /\ processed = {} /\ reports = <<>>
    /\ video_files = {} /\ blog_files = {}

Report(p, message) == Append(reports, [product |-> p, message |-> message])

\* vgs assigns `key` only for an item that has images, and looks up
\* image_data_dict[key] for every item: the key is the one of the last item
\* so far that had images, and is unbound (0) when there was none
LastKey(p) ==
    LET with == {q \in 1..p : products[q].images # <<>>}
    IN  IF with = {} THEN 0
        ELSE CHOOSE q \in with : \A r \in with : r <= q

\* the item whose images list the iteration for product p hands on
ImagesOf(p) == IF impl = "vgs" THEN LastKey(p) ELSE p

\* the head of one iteration: look the product up, make its folder, and call
\* create_video_for_product; vgs calls only when the folder is new
batch_product ==
    /\ batch_pc = "loop" /\ prod_idx < Len(products)
    /\ LET p == prod_idx + 1
           k == ImagesOf(p)
       IN  /\ processed' = processed \cup {p}
           /\ \E folder_exists \in BOOLEAN :
               IF k = 0
               THEN \* NameError: `key` is not bound yet
                    /\ ~folder_exists
                    /\ batch_pc' = "raised"
                    /\ UNCHANGED <<prod_idx, reports, corevars>>
               ELSE IF products[k].images = <<>>
               THEN \* `if not images: continue`
                    /\ ~folder_exists
                    /\ prod_idx' = p
                    /\ UNCHANGED <<batch_pc, reports, corevars>>
               ELSE IF impl = "vgs" /\ folder_exists
               THEN /\ reports' = Report(p, "Folder already exists")
                    /\ batch_pc' = "blog"
                    /\ UNCHANGED <<prod_idx, corevars>>
               ELSE /\ impl = "vgs" \/ ~folder_exists
                    /\ answered' \in BOOLEAN
                    /\ text' \in get_chatgpt_response({products[p].text}, answered')
                    /\ caller_images' = products[k].images
                    /\ images' = products[k].images
                    /\ pc' = "start"
                    /\ batch_pc' = "in_call"
                    /\ words' = <<>> /\ current_line' = <<>>
                    /\ current_slide_lines' = <<>>
                    /\ lines' = <<>> /\ slides' = <<>>
                    /\ idx' = 0 /\ video_clips' = <<>> /\ audio_clips' = <<>>
                    /\ audio_assets' = NoMap /\ final_video' = NoVideo
                    /\ spoken' = NoMap /\ drawn' = NoMap /\ used' = NoMap
                    /\ calls' = {} /\ outcome' = "none"
                    /\ UNCHANGED <<impl, font, max_width, max_lines, run,
                                   first_used, prod_idx, reports>>
    /\ UNCHANGED <<resizevars, sidevars, products, video_files, blog_files>>

\* the message vgs prints once create_video_for_product has returned
created(p) == Report(p, "Video created")

\* create_video_for_product is back: an exception leaves the batch function,
\* a return lets it go on to the blog
batch_call_returns ==
    /\ batch_pc = "in_call" /\ pc = "done"
    /\ LET p == prod_idx + 1
       IN  /\ video_files' = IF outcome = "written"
                             THEN video_files \cup {p} ELSE video_files
           /\ products' = [products EXCEPT ![ImagesOf(p)].images = caller_images]
           /\ IF outcome = "raised"
              THEN batch_pc' = "raised" /\ UNCHANGED reports
              ELSE /\ batch_pc' = "blog"
                   /\ reports' = IF impl = "vgs" THEN created(p) ELSE reports
    /\ pc' = "idle"
    /\ UNCHANGED <<resizevars, sidevars, inputs, segvars, loopvars,
                   caller_images,
                   images, outcome, run, first_used, prod_idx, processed,
                   blog_files>>

\* the blog post and the title file of the product
batch_blog ==
    /\ batch_pc = "blog"
    /\ LET p == prod_idx + 1
       IN  \E blog_answered \in BOOLEAN :
               IF impl = "pipeline" /\ ~blog_answered
               THEN \* get_chatgpt_response raises
                    /\ batch_pc' = "raised"
                    /\ UNCHANGED <<prod_idx, blog_files, reports>>
               ELSE /\ blog_files' = blog_files \cup
                        {[product |-> p,
                          content |-> IF blog_answered THEN "generated"
                                      ELSE "error"]}
                    /\ reports' = IF impl = "vgs"
                                  THEN Report(p, "Blog post created")
                                  ELSE reports
                    /\ prod_idx' = p
                    /\ batch_pc' = "loop"
    /\ UNCHANGED <<resizevars, sidevars, corevars, products, processed,
                   video_files>>

\* the loop is over
batch_returns ==
    /\ batch_pc = "loop" /\ prod_idx = Len(products)
    /\ batch_pc' = "returned"
    /\ UNCHANGED <<resizevars, sidevars, corevars, products, prod_idx,
                   processed,
                   reports, video_files, blog_files>>

BatchNext ==
    \/ batch_product
    \/ create_video_for_product_call
    \/ split_text_into_slides_call
    \/ while_words
    \/ after_while
    \/ extend_images
    \/ for_slide
    \/ combine_clips
    \/ batch_call_returns
    \/ batch_blog
    \/ batch_returns

BatchSpec == BatchInit /\ [][BatchNext]_vars

BatchOver == batch_pc \in {"returned", "raised"}

\* C12 as stated: an error raised while one product is generated does not
\* leave the batch function, and every later product is still taken up.
C12_BatchIsolation ==
    BatchOver => processed = 1..Len(products)

Reported(p, message) ==
    \E j \in 1..Len(reports) :
        reports[j].product = p /\ reports[j].message = message

\* C18 as stated, its first half: "Video created" is reported for a product
\* only if a video file was written for that product.
C18_OutcomeReporting ==
    \A p \in 1..Len(products) :
        Reported(p, "Video created") => p \in video_files

(***************************************************************************)
(* Two generation runs at the same time: the audio file of a slide.        *)
(* A run saves the narration of a slide at                                 *)
(* audio_folder/{listing_id}_{product_id}_slide_{n}.mp3 and then opens the *)
(* file at that path to read its duration.                                 *)
(***************************************************************************)
MaxAudioSlides == 2

Runs == {1, 2}

\* the folder of a batch run is the directory of the uploaded csv, which is
\* the system's temporary directory; a single run has a workspace of its own
Folders(r) == {<<"tempdir", 0>>, <<"workspace", r>>}

ProductIds == {"101_7", "101_8"}

slide_audio_path(r) == <<audio_folder[r], product_id[r], slide_no[r]>>

AudioPaths ==
    {<<f, p, n>> : f \in UNION {Folders(r) : r \in Runs},
                   p \in ProductIds, n \in 1..MaxAudioSlides}

ConcInit ==
    /\ impl \in Impls /\ CoreIdle
    /\ ResizeIdle /\ BatchIdle /\ DownloadIdle /\ LateIdle
    /\ audio_folder \in [Runs -> UNION {Folders(r) : r \in Runs}]
    \* in vgs the folder is one module-level variable that every run reads,
    \* in pipeline it is an argument of the call
    /\ IF impl = "vgs"
       THEN \A r, q \in Runs : audio_folder[r] = audio_folder[q]
       ELSE \A r \in Runs : audio_folder[r] \in Folders(r)
    /\ product_id \in [Runs -> ProductIds]
    /\ n_slides \in [Runs -> 1..MaxAudioSlides]
    /\ audio_pc = [r \in Runs |-> "synth"]
    /\ slide_no = [r \in Runs |-> 1]
    /\ files = [path \in AudioPaths |-> 0]
    /\ read_from = [r \in Runs |-> <<>>]

NextSlide(r) ==
    IF slide_no[r] = n_slides[r]
    THEN audio_pc' = [audio_pc EXCEPT ![r] = "done"] /\ UNCHANGED slide_no
    ELSE /\ audio_pc' = [audio_pc EXCEPT ![r] = "synth"]
         /\ slide_no' = [slide_no EXCEPT ![r] = @ + 1]

\* create_audio_with_gtts: tts.save(path)
save_audio(r) ==
    /\ audio_pc[r] = "synth"
    /\ \E tts \in {"saved", "error"} :
        IF tts = "saved"
        THEN /\ files' = [files EXCEPT ![slide_audio_path(r)] = r]
             /\ audio_pc' = [audio_pc EXCEPT ![r] = "read"]
             /\ UNCHANGED <<slide_no, read_from>>
        ELSE IF impl = "vgs"
        THEN \* None is returned and the slide goes without audio
             /\ NextSlide(r)
             /\ UNCHANGED <<files, read_from>>
        ELSE \* the exception ends the run
             /\ audio_pc' = [audio_pc EXCEPT ![r] = "done"]
             /\ UNCHANGED <<files, slide_no, read_from>>
    /\ UNCHANGED <<corevars, resizevars, batchvars, dlvars, latevars,
                   audio_folder,
                   product_id, n_slides>>

\* AudioFileClip(path): the file that is at the path now
read_audio(r) ==
    /\ audio_pc[r] = "read"
    /\ read_from' = [read_from EXCEPT
                        ![r] = Append(@, files[slide_audio_path(r)])]
    /\ NextSlide(r)
    /\ UNCHANGED <<corevars, resizevars, batchvars, dlvars, latevars,
                   audio_folder,
                   product_id, n_slides, files>>

ConcNext == \E r \in Runs : save_audio(r) \/ read_audio(r)

ConcSpec == ConcInit /\ [][ConcNext]_vars

\* C17 as stated: between the synthesis of a slide's audio by one run and
\* the reading of its duration, the file at the run's path is the one this
\* run wrote, and every file a run has read is its own.
C17_AudioNotShared ==
    \A r \in Runs :
        /\ audio_pc[r] = "read" => files[slide_audio_path(r)] = r
        /\ \A n \in 1..Len(read_from[r]) : read_from[r][n] = r

(***************************************************************************)
(* utils.download_images                                                   *)
(***************************************************************************)
MaxUrls == 3

\* a url as its components between the slashes; the last one is empty when
\* the url ends in a slash
Urls == { <<"cdn-a", "front.jpg">>, <<"cdn-b", "front.jpg">>,
          <<"cdn-a", "side.png">>, <<"cdn-a", "">> }

UrlLists == UNION { [1..n -> Urls] : n \in 0..MaxUrls }

\* os.path.basename(url)
basename(url) == url[Len(url)]

\* os.path.join(target_dir, filename)
dest(url) == <<"target_dir", basename(url)>>

DownloadInit ==
    /\ impl \in Impls /\ CoreIdle
    /\ ResizeIdle /\ BatchIdle /\ ConcIdle /\ LateIdle
    /\ image_urls \in UrlLists
    /\ fetched = <<>>
    /\ local_paths = <<>>
    /\ dl_pc = "loop"

\* `if not local_paths`
nothing_but_one(paths) == Len(paths) <= 1

nothing_downloaded(paths) == paths = <<>>

\* one url of the loop: the body of the try, or its except branch.  Writing
\* to the destination fails when the file name is empty, the destination
\* being the target directory itself
download_one ==
    /\ dl_pc = "loop" /\ Len(fetched) < Len(image_urls)
    /\ LET url == image_urls[Len(fetched) + 1]
       IN  \E response \in {"ok", "error"} :
               LET saved == response = "ok" /\ basename(url) # ""
               IN  /\ fetched' = Append(fetched, saved)
                   /\ local_paths' = IF saved
                                     THEN Append(local_paths, dest(url))
                                     ELSE local_paths
    /\ UNCHANGED <<corevars, resizevars, batchvars, concvars, latevars,
                   image_urls,
                   dl_pc>>

\* after the loop: raise RuntimeError, or return local_paths
download_images_ends ==
    /\ dl_pc = "loop" /\ Len(fetched) = Len(image_urls)
    /\ dl_pc' = IF nothing_downloaded(local_paths)
                THEN "raised" ELSE "returned"
    /\ UNCHANGED <<corevars, resizevars, batchvars, concvars, latevars,
                   image_urls,
                   fetched, local_paths>>

DownloadNext == download_one \/ download_images_ends

DownloadSpec == DownloadInit /\ [][DownloadNext]_vars

\* the destinations of the first i urls that were fetched, in input order
RECURSIVE FetchedDests(_)
FetchedDests(i) ==
    IF i = 0 THEN <<>>
    ELSE IF fetched[i]
         THEN Append(FetchedDests(i - 1), dest(image_urls[i]))
         ELSE FetchedDests(i - 1)

\* C19: download_images goes through every url whatever failed before; it
\* returns the destinations of exactly the fetched urls, in input order, one
\* for each; it raises exactly when no url was fetched, the empty list
\* included.
C19_DownloadImages ==
    dl_pc \in {"returned", "raised"} =>
        /\ Len(fetched) = Len(image_urls)
        /\ dl_pc = "raised" <=> \A i \in 1..Len(fetched) : ~fetched[i]
        /\ dl_pc = "returned" =>
               local_paths = FetchedDests(Len(image_urls))

\* a failed url between fetched ones, and two urls with one destination
C19_Witness ==
    /\ dl_pc = "returned"
    /\ Len(image_urls) = 3
    /\ fetched = <<TRUE, FALSE, TRUE>>
    /\ local_paths[1] = local_paths[2]

(***************************************************************************)
(* The two segmenters on one narration: split_text_into_slides of          *)
(* video_generation_service.py first, then the one of pipeline.py.         *)
(***************************************************************************)
PairInit ==
    /\ ResizeIdle /\ BatchIdle /\ ConcIdle /\ DownloadIdle /\ DriveIdle
    /\ UploadIdle /\ AppIdle
    /\ impl = "vgs"
    /\ \E ws \in WordLists, style \in {"plain", "untidy"} :
           text = MakeText(ws, style)
    /\ font \in Fonts
    /\ max_width \in 1..MaxWidthPx
    /\ max_lines \in 1..MaxLinesPer
    /\ caller_images = <<[id |-> 1, imageURL |-> TRUE]>>
    /\ images = caller_images
    /\ pc = "seg" /\ answered = TRUE
    /\ run = 1 /\ first_used = NoMap
    /\ Locals
    /\ other_slides = <<>> /\ seg_pass = 1

\* the first segmenter has returned: keep its slides and give the same
\* arguments to the other one
split_text_into_slides_other ==
    /\ pc = "alloc" /\ seg_pass = 1
    /\ other_slides' = slides
    /\ seg_pass' = 2
    /\ impl' = "pipeline"
    /\ pc' = "seg"
    /\ UNCHANGED <<resizevars, batchvars, concvars, dlvars, drivevars,
                   uplvars, appvars, text, font, max_width, max_lines, answered, segvars, loopvars, caller_images,
                   images, outcome, run, first_used>>

PairNext ==
    \/ split_text_into_slides_call
    \/ while_words
    \/ after_while
    \/ split_text_into_slides_other

PairSpec == PairInit /\ [][PairNext]_vars

(***************************************************************************)
(* drive_db.upload_file, called by two sessions for one parent folder.     *)
(* files().list, files().update and files().create are separate requests. *)
(***************************************************************************)
MaxUploads == 2

Sessions == {1, 2}

FileNames == {"101_7.mp4", "101_7.txt"}

\* a folder without duplicate names: empty, or holding one of the files
DriveFolders ==
    {<<>>} \cup {<<[name |-> n, content |-> <<0, 0>>]>> : n \in FileNames}

DriveInit ==
    /\ impl \in Impls /\ CoreIdle
    /\ ResizeIdle /\ BatchIdle /\ ConcIdle /\ DownloadIdle /\ PairIdle
    /\ UploadIdle /\ AppIdle
    /\ drive_files \in DriveFolders
    /\ up_pc = [s \in Sessions |-> "idle"]
    /\ up_name = [s \in Sessions |-> ""]
    /\ up_data = [s \in Sessions |-> <<0, 0>>]
    /\ existing = [s \in Sessions |-> <<>>]
    /\ uploads = [s \in Sessions |-> 0]

\* the ids of the files the query name='{name}' ... trashed=false finds
RECURSIVE FilesNamed(_, _)
FilesNamed(name, i) ==
    IF i > Len(drive_files) THEN <<>>
    ELSE (IF drive_files[i].name = name THEN <<i>> ELSE <<>>)
         \o FilesNamed(name, i + 1)

\* `if existing:`
found(ids) == ids # <<>>

\* upload_file up to the answer of files().list
upload_file_list(s) ==
    /\ up_pc[s] = "idle" /\ uploads[s] < MaxUploads
    /\ \E name \in FileNames :
        /\ up_name' = [up_name EXCEPT ![s] = name]
        /\ up_data' = [up_data EXCEPT ![s] = <<s, uploads[s] + 1>>]
        /\ existing' = [existing EXCEPT ![s] = FilesNamed(name, 1)]
    /\ uploads' = [uploads EXCEPT ![s] = @ + 1]
    /\ up_pc' = [up_pc EXCEPT ![s] = "listed"]
    /\ UNCHANGED <<corevars, resizevars, batchvars, concvars, dlvars,
                   pairvars, uplvars, appvars, drive_files>>

\* the rest of upload_file: files().update of the first file found, or
\* files().create of a new one; the request may fail
upload_file_write(s) ==
    /\ up_pc[s] = "listed"
    /\ \E request \in {"ok", "error"} :
        drive_files' =
            IF request = "error" THEN drive_files
            ELSE IF found(existing[s])
            THEN [drive_files EXCEPT
                     ![existing[s][1]].content = up_data[s]]
            ELSE Append(drive_files,
                        [name |-> up_name[s], content |-> up_data[s]])
    /\ up_pc' = [up_pc EXCEPT ![s] = "idle"]
    /\ UNCHANGED <<corevars, resizevars, batchvars, concvars, dlvars,
                   pairvars, uplvars, appvars, up_name, up_data, existing, uploads>>

DriveNext == \E s \in Sessions : upload_file_list(s) \/ upload_file_write(s)

DriveSpec == DriveInit /\ [][DriveNext]_vars

\* C26 as stated: the parent never holds two non-trashed files of one name,
\* and the content of a file is the initial one or the data of one of the
\* upload_file calls made with its name.
C26_UploadIsCreateOrUpdate ==
    /\ \A i, j \in 1..Len(drive_files) :
           drive_files[i].name = drive_files[j].name => i = j
    /\ \A i \in 1..Len(drive_files) :
           \/ drive_files[i].content = <<0, 0>>
           \/ \E s \in Sessions :
                  /\ drive_files[i].content[1] = s
                  /\ drive_files[i].content[2] \in 1..uploads[s]

(***************************************************************************)
(* upload_videos_streamlit                                                 *)
(***************************************************************************)
MaxEntries == 2

\* what can be at a path: nothing, a regular file, or a directory
ProductFolder(vid, blog, title) ==
    [is_dir |-> TRUE, vid |-> vid, blog |-> blog, title |-> title]

\* the entries os.listdir can show: a plain file, and product folders that
\* are complete, that miss a file, or that hold a directory where the title
\* or the blog file should be
Entries ==
    { [is_dir |-> FALSE, vid |-> "absent", blog |-> "absent",
       title |-> "absent"],
      ProductFolder("file", "file", "file"),
      ProductFolder("absent", "file", "file"),
      ProductFolder("file", "absent", "file"),
      ProductFolder("file", "file", "absent"),
      ProductFolder("file", "file", "directory"),
      ProductFolder("file", "directory", "file") }

UploadInit ==
    /\ impl \in Impls /\ CoreIdle
    /\ ResizeIdle /\ BatchIdle /\ ConcIdle /\ DownloadIdle /\ PairIdle
    /\ DriveIdle /\ AppIdle
    /\ \E n \in 1..MaxEntries : output_folder \in [1..n -> Entries]
    /\ sub_idx = 0 /\ results = <<>> /\ upload_calls = {}
    /\ upl_pc = "loop"

\* os.path.exists(x)
exists(x) == x # "absent"

\* open(x).read() raises when x is a directory
readable(x) == x = "file"

\* one entry of the listing
upload_sub ==
    /\ upl_pc = "loop" /\ sub_idx < Len(output_folder)
    /\ LET sub == sub_idx + 1
           p   == output_folder[sub]
       IN  IF ~p.is_dir
           THEN /\ sub_idx' = sub
                /\ UNCHANGED <<output_folder, results, upload_calls, upl_pc>>
           ELSE IF ~(exists(p.vid) /\ exists(p.blog) /\ exists(p.title))
           THEN /\ results' = Append(results, <<sub, FALSE, "Missing files">>)
                /\ sub_idx' = sub
                /\ UNCHANGED <<output_folder, upload_calls, upl_pc>>
           ELSE IF ~(readable(p.title) /\ readable(p.blog))
           THEN \* the two reads stand before the try
                /\ upl_pc' = "raised"
                /\ UNCHANGED <<output_folder, sub_idx, results, upload_calls>>
           ELSE \E upload, embed \in {"ok", "error"} :
                /\ upload_calls' = upload_calls \cup {sub}
                /\ sub_idx' = sub
                /\ upload = "error" => embed = "error"
                /\ IF upload = "ok" /\ embed = "ok"
                   THEN /\ output_folder' =
                               [output_folder EXCEPT ![sub].blog = "embedded"]
                        /\ results' = Append(results, <<sub, TRUE, "url">>)
                   ELSE /\ results' = Append(results, <<sub, FALSE, "str(e)">>)
                        /\ UNCHANGED output_folder
                /\ UNCHANGED upl_pc
    /\ UNCHANGED <<corevars, resizevars, batchvars, concvars, dlvars,
                   pairvars, drivevars, appvars>>

\* `return results`
upload_videos_streamlit_returns ==
    /\ upl_pc = "loop" /\ sub_idx = Len(output_folder)
    /\ upl_pc' = "returned"
    /\ UNCHANGED <<corevars, resizevars, batchvars, concvars, dlvars,
                   pairvars, drivevars, appvars, output_folder, sub_idx, results,
                   upload_calls>>

UploadNext == upload_sub \/ upload_videos_streamlit_returns

UploadSpec == UploadInit /\ [][UploadNext]_vars

\* the product folders among the first n entries, in listing order
RECURSIVE Subdirs(_)
Subdirs(n) ==
    IF n = 0 THEN <<>>
    ELSE IF output_folder[n].is_dir THEN Append(Subdirs(n - 1), n)
         ELSE Subdirs(n - 1)

\* C27 as stated: the call returns, with exactly one result for each product
\* subdirectory of the listing, in order: "Missing files" without an upload
\* when a file is absent, a failure with the blog unchanged when upload_fn
\* or embed_fn raised, and success with the blog rewritten otherwise.
C27_OneResultPerSubdir ==
    upl_pc \in {"returned", "raised"} =>
        /\ upl_pc = "returned"
        /\ Len(results) = Len(Subdirs(Len(output_folder)))
        /\ \A k \in 1..Len(results) :
            LET sub == Subdirs(Len(output_folder))[k]
                p   == output_folder[sub]
            IN  /\ results[k][1] = sub
                /\ results[k][3] = "Missing files" =>
                       ~results[k][2] /\ sub \notin upload_calls
                /\ results[k][2] <=> p.blog = "embedded"
                /\ ~(exists(p.vid) /\ exists(p.blog) /\ exists(p.title)) =>
                       results[k][3] = "Missing files"

(***************************************************************************)
(* app.py: the preloading of the fonts and the logo, and the reruns of the *)
(* single-product page, one rerun for each press of a button.              *)
(***************************************************************************)
MaxWorkspaces == 4

AppInit ==
    /\ impl \in Impls /\ CoreIdle
    /\ ResizeIdle /\ BatchIdle /\ ConcIdle /\ DownloadIdle /\ PairIdle
    /\ DriveIdle /\ UploadIdle
    /\ dirs = {} /\ next_td = 1 /\ app_pc = "preload_fonts"
    /\ fonts_folder = <<>> /\ logo_path = <<>>
    /\ show_output_radio_single = FALSE /\ last_single_result = <<>>
    /\ generate_calls = 0 /\ event = "none" /\ rendered = "nothing"

\* temp_workspace: tempfile.mkdtemp() on entry ...
mkdtemp(ds, td) == ds \cup {td}

\* ... and shutil.rmtree(td) when the with block is left, by its end, by a
\* return or by st.stop()
rmtree(ds, td) == ds \ {td}

\* os.path.exists of a path, given as <<directory, name>>
path_exists(path) == path[1] \in dirs

\* preload_fonts: the zip is extracted to td/fonts inside the with block and
\* that path is returned
preload_fonts ==
    /\ app_pc = "preload_fonts"
    /\ \E zip_meta \in BOOLEAN :
           fonts_folder' = IF zip_meta THEN <<next_td, "fonts">> ELSE <<>>
    /\ dirs' = rmtree(mkdtemp(dirs, next_td), next_td)
    /\ next_td' = next_td + 1
    /\ app_pc' = "preload_logo"
    /\ UNCHANGED <<corevars, resizevars, batchvars, concvars, dlvars,
                   pairvars, drivevars, uplvars, logo_path,
                   show_output_radio_single, last_single_result,
                   generate_calls, event, rendered>>

\* preload_logo: without an image None is returned before any workspace is
\* made; otherwise the image is written to td/name and that path returned
preload_logo ==
    /\ app_pc = "preload_logo"
    /\ \E imgs \in BOOLEAN :
           IF imgs
           THEN /\ logo_path' = <<next_td, "logo.png">>
                /\ dirs' = rmtree(mkdtemp(dirs, next_td), next_td)
                /\ next_td' = next_td + 1
           ELSE /\ logo_path' = <<>>
                /\ UNCHANGED <<dirs, next_td>>
    /\ app_pc' = "ready"
    /\ UNCHANGED <<corevars, resizevars, batchvars, concvars, dlvars,
                   pairvars, drivevars, uplvars, fonts_folder,
                   show_output_radio_single, last_single_result,
                   generate_calls, event, rendered>>

\* the rerun after a press of Generate
press_generate ==
    /\ app_pc = "ready"
    /\ event' = "Generate"
    /\ \E inputs_given \in BOOLEAN :
           IF inputs_given
           THEN /\ show_output_radio_single' = TRUE
                /\ last_single_result' = <<>>
                /\ rendered' = "nothing"
           ELSE /\ rendered' = "error"
                /\ UNCHANGED <<show_output_radio_single, last_single_result>>
    /\ UNCHANGED <<corevars, resizevars, batchvars, concvars, dlvars,
                   pairvars, drivevars, uplvars, dirs, next_td, app_pc,
                   fonts_folder, logo_path, generate_calls>>

\* the result of generate_for_single: its files are in the folder handed
\* over as cfg.output_base_folder
generate_for_single(output_base_folder) ==
    << <<output_base_folder, "video.mp4">>,
       <<output_base_folder, "blog.txt">> >>

is_valid_single_result(result) ==
    result # <<>> /\ (path_exists(result[1]) \/ path_exists(result[2]))

\* the rerun after a press of Continue
press_continue ==
    /\ app_pc = "ready" /\ show_output_radio_single
    /\ next_td <= MaxWorkspaces
    /\ event' = "Continue"
    /\ IF last_single_result # <<>>
          /\ is_valid_single_result(last_single_result)
       THEN \* render_single_output(); st.stop()
            /\ rendered' = "stored"
            /\ UNCHANGED <<dirs, next_td, last_single_result, generate_calls>>
       ELSE \* no result, or "Previous session expired": generate in a
            \* workspace of this rerun
            /\ dirs' = rmtree(mkdtemp(dirs, next_td), next_td)
            /\ next_td' = next_td + 1
            /\ generate_calls' = generate_calls + 1
            /\ \E ends \in {"result", "GenerationError", "Exception"} :
                   IF ends = "result"
                   THEN /\ last_single_result' = generate_for_single(next_td)
                        /\ rendered' = "generated"
                   ELSE /\ last_single_result' = <<>>
                        /\ rendered' = "error"
    /\ UNCHANGED <<corevars, resizevars, batchvars, concvars, dlvars,
                   pairvars, drivevars, uplvars, app_pc, fonts_folder,
                   logo_path, show_output_radio_single>>

AppNext == preload_fonts \/ preload_logo \/ press_generate \/ press_continue

AppSpec == AppInit /\ [][AppNext]_vars

\* C21 as stated: once preload_fonts and preload_logo have returned them, the
\* font directory and the brand-mark file exist, at every moment up to and
\* after the generation calls that are handed them.
C21_PreloadedAssetsStay ==
    /\ fonts_folder # <<>> => path_exists(fonts_folder)
    /\ logo_path # <<>> => path_exists(logo_path)

\* C28 as stated: a press of Continue while last_single_result holds the
\* result of a generation (no Generate since) shows the stored result and
\* does not call generate_for_single.
C28_ContinueShowsStored ==
    [][(event' = "Continue" /\ last_single_result # <<>>) =>
           (rendered' = "stored" /\ generate_calls' = generate_calls)]_vars

(***************************************************************************)
(* What the segmenter returned, read back as the renderer reads it.        *)
(***************************************************************************)
Returned == pc = "alloc"

\* slide_text.split('\n')
SlideLines(slide) == SplitOn(slide, "\n")

AllLines == Concat([k \in 1..Len(slides) |-> SlideLines(slides[k])])

\* the words of a line: its maximal runs of non-space characters
LineWords(line) == Split(line)

LinesAsWords == [j \in 1..Len(AllLines) |-> LineWords(AllLines[j])]

\* number of words on the lines before line j
WordsBefore(j) == Len(Concat(SubSeq(LinesAsWords, 1, j - 1)))

CeilDiv(a, b) == (a + b - 1) \div b

\* C1 as stated: every line of every returned slide, a single-word line
\* included, is at most max_width wide.
C1_EveryLineFits ==
    Returned => \A j \in 1..Len(AllLines) :
                    Width(font, AllLines[j]) <= max_width

\* C1 as amended: a line is at most max_width wide unless it holds one single
\* word that, followed by a space, is wider than max_width.
C1_LineFitsUnlessOverwideWord ==
    Returned =>
        \A j \in 1..Len(AllLines) :
            \/ Width(font, AllLines[j]) <= max_width
            \/ /\ Len(LinesAsWords[j]) = 1
               /\ Width(font, AllLines[j] \o <<" ">>) > max_width

C1_Witness ==
    /\ Returned
    /\ \E j \in 1..Len(AllLines) : /\ Len(LinesAsWords[j]) >= 2
                                   /\ Width(font, AllLines[j]) = max_width
    /\ \E j \in 1..Len(AllLines) : /\ Len(LinesAsWords[j]) = 1
                                   /\ Width(font, AllLines[j]) > max_width

\* C2: with at least one word, every slide but the last has exactly max_lines
\* lines, the last has 1..max_lines lines, and there are
\* ceil(total_lines / max_lines) slides.
C2_Pagination ==
    (Returned /\ Split(text) # <<>>) =>
        /\ Len(slides) >= 1
        /\ \A k \in 1..(Len(slides) - 1) :
               Len(SlideLines(slides[k])) = max_lines
        /\ Len(SlideLines(slides[Len(slides)])) \in 1..max_lines
        /\ Len(slides) = CeilDiv(Len(AllLines), max_lines)
        /\ impl = "pipeline" => Len(AllLines) = Len(lines)

C2_Witness ==
    /\ Returned /\ impl = "vgs" /\ max_lines >= 2
    /\ Len(slides) >= 2
    /\ Len(SlideLines(slides[Len(slides)])) < max_lines

\* C3: the words of the returned lines, in slide and line order, are exactly
\* text.split().
C3_Coverage == Returned => Concat(LinesAsWords) = Split(text)

C3_Witness ==
    /\ Returned
    /\ Len(Split(text)) >= 3
    /\ Len(slides) >= 2
    /\ text # Join(Split(text), <<" ">>)

\* C4: a word wider than max_width is returned as a line that holds exactly
\* that word, at that word's place in the narration.
C4_OverwideWordAlone ==
    Returned =>
        \A k \in 1..Len(Split(text)) :
            Width(font, Split(text)[k]) > max_width =>
                \E j \in 1..Len(AllLines) :
                    /\ AllLines[j] = Split(text)[k]
                    /\ WordsBefore(j) = k - 1

C4_Witness ==
    /\ Returned
    /\ Len(Split(text)) >= 3
    /\ Width(font, Split(text)[1]) <= max_width
    /\ Width(font, Split(text)[2]) > max_width
    /\ Width(font, Split(text)[3]) <= max_width

\* C5 as stated, for a narration with at least one word: if the words joined
\* by single spaces, without a trailing space, are at most max_width wide,
\* one slide of one line equal to the joined words is returned.
C5_FitsWithoutTrailingSpace ==
    (Returned /\ Split(text) # <<>>
              /\ Width(font, Join(Split(text), <<" ">>)) <= max_width) =>
        slides = <<Join(Split(text), <<" ">>)>>

\* C5 as amended: the narration has at least one word and its words, each
\* followed by one space, are at most max_width wide.
C5_FitsWithTrailingSpace ==
    (Returned /\ Split(text) # <<>>
              /\ Width(font, Join(Split(text), <<" ">>) \o <<" ">>)
                     <= max_width) =>
        slides = <<Join(Split(text), <<" ">>)>>

C5_Witness ==
    /\ Returned
    /\ Len(Split(text)) >= 3
    /\ Width(font, Join(Split(text), <<" ">>) \o <<" ">>) = max_width
    /\ slides = <<Join(Split(text), <<" ">>)>>

(***************************************************************************)
(* Properties of create_video_for_product.                                 *)
(***************************************************************************)
RECURSIVE SumDurations(_)
SumDurations(clips) ==
    IF clips = <<>> THEN 0
    ELSE Head(clips).duration + SumDurations(Tail(clips))

RECURSIVE SumOver(_, _)
SumOver(map, dom) ==
    IF dom = {} THEN 0
    ELSE LET i == CHOOSE k \in dom : TRUE
         IN  map[i] + SumOver(map, dom \ {i})

\* number of image descriptors the caller supplied; descriptor k of the
\* supplied list carries id k
K == Cardinality({caller_images[p].id : p \in DOMAIN caller_images})

\* C6 as stated: a narration without words ends the call in an error raised
\* to the caller, with zero slides and before any external call.
C6_EmptyNarrationRaises ==
    (pc = "done" /\ Split(text) = <<>> /\ outcome # "font_not_loaded") =>
        (slides = <<>> /\ calls = {} /\ outcome = "raised")

\* C7: the image picked for slide i is the caller's images[i mod K], also
\* after the list was extended, and a second call picks the same images.
C7_Allocation ==
    /\ \A i \in DOMAIN used : used[i] = (i % K) + 1
    /\ \A i \in DOMAIN used \cap DOMAIN first_used : used[i] = first_used[i]

C7_Witness ==
    /\ run = 2 /\ pc = "done"
    /\ K = 2 /\ Len(slides) = 5
    /\ DOMAIN first_used = 0..4
    /\ used = [i \in 0..4 |-> IF i \in {0, 2, 4} THEN 1 ELSE 2]

\* C8: after every iteration video_clips and audio_clips are equally long,
\* the j-th clips have equal durations, and a written video lasts as long as
\* the audio files that were produced, summed.
C8_Timing ==
    /\ Len(video_clips) = Len(audio_clips)
    /\ \A j \in 1..Len(video_clips) :
           video_clips[j].duration = audio_clips[j].duration
    /\ outcome = "written" =>
           /\ SumDurations(final_video.clips)
                  = SumOver(audio_assets, DOMAIN audio_assets)
           /\ SumDurations(final_video.audio)
                  = SumOver(audio_assets, DOMAIN audio_assets)

C8_Witness ==
    /\ outcome = "written"
    /\ Len(final_video.clips) >= 2
    /\ final_video.clips[1].duration # final_video.clips[2].duration

\* a code made of letters, a hyphen and digits, such as SKU-123
IsProductCode(token) ==
    \E h \in 2..(Len(token) - 1) :
        /\ token[h] = Hyphen
        /\ \A j \in 1..(h - 1) : IsAlnum(token[j]) /\ ~IsDigit(token[j])
        /\ \A j \in (h + 1)..Len(token) : IsDigit(token[j])

\* the rewrite C9 describes: " dash " for digit-hyphen-digit and for product
\* codes, a single space otherwise
ClaimedToken(token) ==
    IF HasDigitHyphenDigit(token) \/ IsProductCode(token)
    THEN Replace(token, Hyphen, Dash)
    ELSE Replace(token, Hyphen, <<" ">>)

RECURSIVE ClaimedFrom(_, _)
ClaimedFrom(s, i) ==
    IF i > Len(s) THEN <<>>
    ELSE LET e == MatchEnd(s, i)
         IN  IF e > 0
             THEN ClaimedToken(SubSeq(s, i, e)) \o ClaimedFrom(s, e + 1)
             ELSE <<s[i]>> \o ClaimedFrom(s, i + 1)

\* C9 as stated: in the text sent to synthesis a hyphenated token has its
\* hyphen spoken as " dash " when it holds digit-hyphen-digit or is a product
\* code such as SKU-123, and replaced by one space otherwise.
C9_HyphenNormalization ==
    \A i \in DOMAIN spoken : spoken[i] = ClaimedFrom(slides[i + 1], 1)

\* C10: the lines drawn on a slide's frame are the slide's own lines, not the
\* text rewritten for speech.
C10_DrawnTextIsOriginal ==
    \A i \in DOMAIN drawn : drawn[i] = SlideLines(slides[i + 1])

C10_Witness ==
    \E i \in DOMAIN drawn :
        /\ spoken[i] # slides[i + 1]
        /\ Len(drawn[i]) >= 2
        /\ drawn[i] = SlideLines(slides[i + 1])

\* C11 as stated: when the speech call failed for a slide of the product, no
\* video file is written for the product.
C11_SynthesisFailureIsFatal ==
    outcome = "written" => DOMAIN spoken \subseteq DOMAIN audio_assets

\* C13 as stated: write_videofile runs only after the loop over the slides,
\* and only when fetch, synthesis and rendering succeeded for every slide.
C13_NoPartialVideo ==
    "encode" \in calls =>
        /\ idx = Len(slides)
        /\ Len(video_clips) = Len(slides)
        /\ DOMAIN drawn = 0..(Len(slides) - 1)

StrictlyIncreasing(clips) ==
    \A j, k \in 1..Len(clips) : j < k => clips[j].slide < clips[k].slide

\* C14: the visual and the audio clips are in strictly increasing slide
\* order, and the j-th of each belong to the same slide, whichever slides
\* were left out; so are the clips handed to concatenation.
C14_Ordering ==
    /\ StrictlyIncreasing(video_clips) /\ StrictlyIncreasing(audio_clips)
    /\ \A j \in 1..Len(video_clips) :
           video_clips[j].slide = audio_clips[j].slide
    /\ StrictlyIncreasing(final_video.clips)
    /\ StrictlyIncreasing(final_video.audio)
    /\ \A j \in 1..Len(final_video.clips) :
           final_video.clips[j].slide = final_video.audio[j].slide

C14_Witness ==
    /\ outcome = "written"
    /\ Len(final_video.clips) >= 2
    /\ Len(final_video.clips) < Len(slides)
    /\ final_video.clips[1].slide > 0

\* C15 as stated: when the call has returned, the caller's images list has
\* the length and the elements it had before the call.
C15_ImagesNotMutated ==
    (pc = "done" /\ outcome \in {"written", "no_video"}) =>
        /\ Len(caller_images) = K
        /\ \A p \in 1..Len(caller_images) : caller_images[p].id = p

\* C20: while the loop runs, the words still to place are the last words of
\* text.split(); every iteration removes exactly the first of them and stays
\* in the loop, whether or not the word fits; and with no word left the loop
\* is left.  So the loop ends after len(text.split()) iterations.
C20_Termination ==
    /\ [](pc = "wrap" =>
            \E k \in 0..Len(Split(text)) :
                words = SubSeq(Split(text), k + 1, Len(Split(text))))
    /\ [][ /\ (pc = "seg" => pc' = "wrap" /\ words' = Split(text))
           /\ (pc = "wrap" /\ words # <<>> =>
                  pc' = "wrap" /\ words' = Tail(words))
           /\ (pc = "wrap" /\ words = <<>> => pc' # "wrap") ]_vars

\* three words, none of which fits the width, and the segmenter has returned
C20_Witness ==
    /\ Returned
    /\ Len(Split(text)) = 3
    /\ \A k \in 1..3 : Width(font, Split(text)[k] \o <<" ">>) > max_width

\* C22 as stated: every line of every returned slide holds at least one
\* word, so no empty line and no empty slide is returned, also when the
\* first word of the narration does not fit max_width.
C22_NoEmptyLine ==
    Returned =>
        \A k \in 1..Len(slides) :
            /\ slides[k] # <<>>
            /\ \A j \in 1..Len(SlideLines(slides[k])) :
                   LineWords(SlideLines(slides[k])[j]) # <<>>

\* C23: on the same narration, font, max_width and max_lines, the slides
\* returned by pipeline.split_text_into_slides are the slides returned by
\* video_generation_service.split_text_into_slides.
C23_SegmentersAgree ==
    (Returned /\ seg_pass = 2) => slides = other_slides

\* both have returned two slides, the first of them with two lines
C23_Witness ==
    /\ Returned /\ seg_pass = 2
    /\ Len(other_slides) >= 2
    /\ Len(SlideLines(other_slides[1])) = 2

\* a hyphen of s that stands directly between two alphanumeric characters
HyphenBetweenAlnums(s) ==
    \E j \in 2..(Len(s) - 1) :
        s[j] = Hyphen /\ IsAlnum(s[j - 1]) /\ IsAlnum(s[j + 1])

\* C24 as stated: the text sent to synthesis holds no hyphen directly between
\* two alphanumeric characters, and normalizing it once more changes nothing.
C24_NoHyphenLeft ==
    \A i \in DOMAIN spoken :
        /\ ~HyphenBetweenAlnums(spoken[i])
        /\ voiceover_text(spoken[i]) = spoken[i]

\* C25 as stated: when the chat completion request for the transcript has
\* failed, no video is written for the product, and no blog file holds an
\* error message in place of the generated post.
C25_NoOutputFromError ==
    /\ ~answered => outcome # "written"
    /\ \A blog \in blog_files : blog.content = "generated"

====
